---- MODULE Spec2Model ----
(***************************************************************************)
(* A model of diydns: the DNS packet codec of src/lib.rs (BytePacketBuffer *)
(* and the DnsHeader / DnsQuestion / DnsRecord / DnsPacket readers and     *)
(* writers) and the resolver and server loop of src/main.rs.               *)
(*                                                                         *)
(* A buffer operation is an operator on a cursor value                     *)
(*     [buf, pos, err, val, acc]                                           *)
(* buf and pos are the fields of BytePacketBuffer; err is "none" while the *)
(* call chain is still returning Ok, "range" / "label" for the two Err     *)
(* values of lib.rs, "panic" for an unwrap(), unreachable!() or a failed   *)
(* array bounds check, and "diverge" for a loop that never ends; val is    *)
(* the value returned; acc is the highest array index the call indexed     *)
(* (-1: none).  An operator applied to a cursor whose err is not "none"    *)
(* returns it unchanged: that is the ? operator of the source.             *)
(*                                                                         *)
(* Strings are sequences of bytes; '.' is 46.  A u32 is the pair           *)
(* <<high 16 bits, low 16 bits>>: (hi << 16) | lo.                         *)
(***************************************************************************)
EXTENDS Integers, Sequences, FiniteSets, TLC

VARIABLES
    buf,      \* BytePacketBuffer.buf of the buffer under test
    pos,      \* BytePacketBuffer.pos of the buffer under test
    last,     \* the last call on the buffer: its name, arguments and outcome
    ops,      \* the number of calls made on the buffer
    held,     \* what the buffer was filled with: nothing known, a packet written
              \* from offset 0, or a laid-out name with compression pointers
    pc,       \* where the process is: "recv" blocked in serve's recv_from, "await"
              \* blocked in lookup's recv_from, "crashed" after a panic, "hung" in
              \* a loop that never ends
    request,  \* the request being served: its source address and decoded packet
    stack,    \* the invocations of recursive_lookup, the innermost last; each
              \* holds its qname, qtype, ns and the response it waits with
    wire,     \* the queries lookup sent for the request being served
    outbox,   \* the responses serve sent for the last datagram received
    served,   \* the number of datagrams received
    ev        \* what the last step met: the datagram or reply, how it decoded,
              \* the invocations that returned

MAX_BUFFER_SIZE == 512

LABEL_LIMIT == 52

Dot == 46

Max2(a, b) == IF a > b THEN a ELSE b

Cursor(b, p) == [buf |-> b, pos |-> p, err |-> "none", val |-> 0, acc |-> -1]

IsOk(c) == c.err = "none"

\* F applied to the value of c0, which is computed once
Then(c0, F(_)) == CHOOSE r \in { F(c) : c \in {c0} } : TRUE

Fail(c, e) == [c EXCEPT !.err = e]

\* self.buf[i]: the array read with Rust's bounds check
Index(c, i) ==
    IF i < MAX_BUFFER_SIZE
    THEN [c EXCEPT !.val = c.buf[i], !.acc = Max2(@, i)]
    ELSE [c EXCEPT !.err = "panic", !.acc = Max2(@, i)]

\* self.buf[i] = v: the array write with Rust's bounds check
Store(c, i, v) ==
    IF i < MAX_BUFFER_SIZE
    THEN [c EXCEPT !.buf[i] = v, !.acc = Max2(@, i)]
    ELSE [c EXCEPT !.err = "panic", !.acc = Max2(@, i)]

\* &self.buf[start..start + len]: the slice with Rust's bounds check
Slice(c, start, len) ==
    IF start + len <= MAX_BUFFER_SIZE
    THEN [c EXCEPT !.val = [k \in 1..len |-> c.buf[start + k - 1]],
                   !.acc = IF len > 0 THEN Max2(@, start + len - 1) ELSE @]
    ELSE [c EXCEPT !.err = "panic", !.acc = Max2(@, start + len - 1)]

is_in_range_off_by_one(p) == p <= MAX_BUFFER_SIZE

is_in_range(p) == p < MAX_BUFFER_SIZE

get(c, p) ==
    IF ~IsOk(c) THEN c
    ELSE IF ~is_in_range(p) THEN Fail(c, "range")
    ELSE Index(c, p)

get_range(c, start, len) ==
    IF ~IsOk(c) THEN c
    ELSE IF ~is_in_range(start + len) THEN Fail(c, "range")
    ELSE Slice(c, start, len)

read(c) ==
    IF ~IsOk(c) THEN c
    ELSE IF ~is_in_range(c.pos) THEN Fail(c, "range")
    ELSE Index([c EXCEPT !.pos = @ + 1], c.pos)

read_u16(c) ==
    Then(read(c), LAMBDA a :
    Then(read(a), LAMBDA b :
        IF IsOk(b) THEN [b EXCEPT !.val = ((a.val * 256) % 65536) + b.val] ELSE b))

read_u32(c) ==
    Then(read_u16(c), LAMBDA a :
    Then(read_u16(a), LAMBDA b :
        IF IsOk(b) THEN [b EXCEPT !.val = <<a.val, b.val>>] ELSE b))

write(c, v) ==
    IF ~IsOk(c) THEN c
    ELSE IF ~is_in_range(c.pos) THEN Fail(c, "range")
    ELSE Then(Store(c, c.pos, v), LAMBDA s :
             IF IsOk(s) THEN [s EXCEPT !.pos = @ + 1] ELSE s)

write_u16(c, v) == write(write(c, (v \div 256) % 256), v % 256)

write_u32(c, v) == write_u16(write_u16(c, v[1]), v[2])

set(c, p, v) ==
    IF ~IsOk(c) THEN c
    ELSE IF ~is_in_range(p) THEN Fail(c, "range")
    ELSE Store(c, p, v)

set_u16(c, p, v) == set(set(c, p, (v \div 256) % 256), p + 1, v % 256)

(***************************************************************************)
(* Names                                                                   *)
(***************************************************************************)

\* qname.split('.'): the labels between the dots; "" splits to one empty
\* label, and a name with n dots to n + 1 labels
Split(s) ==
    LET dots == {i \in 1..Len(s) : s[i] = Dot}
        n == Cardinality(dots)
        \* the position of the k-th dot; 0 and Len(s) + 1 bound the name
        dot(k) == IF k = 0 THEN 0
                  ELSE IF k = n + 1 THEN Len(s) + 1
                  ELSE CHOOSE i \in dots : Cardinality({j \in dots : j < i}) = k - 1
    IN  [k \in 1..(n + 1) |-> SubSeq(s, dot(k - 1) + 1, dot(k) - 1)]

RECURSIVE Lossy(_)
\* String::from_utf8_lossy on bytes that are ASCII or 0xF8..0xFF (never part
\* of valid UTF-8): each such byte becomes U+FFFD, the bytes EF BF BD
Lossy(bs) ==
    IF bs = <<>> THEN <<>>
    ELSE IF Len(bs) = 1 THEN (IF bs[1] < 128 THEN bs ELSE <<239, 191, 189>>)
    ELSE Lossy(SubSeq(bs, 1, Len(bs) \div 2)) \o Lossy(SubSeq(bs, (Len(bs) \div 2) + 1, Len(bs)))

\* str::to_lowercase on the output of Lossy: A..Z fold, the rest is kept
Lower(bs) == [k \in 1..Len(bs) |-> IF bs[k] >= 65 /\ bs[k] <= 90 THEN bs[k] + 32 ELSE bs[k]]

RECURSIVE write_bytes(_, _)
\* for b in bytes { self.write(*b)?; }: the writes in order, evaluated as
\* the first half of the bytes followed by the second half
write_bytes(c, bs) ==
    IF bs = <<>> \/ ~IsOk(c) THEN c
    ELSE IF Len(bs) = 1 THEN write(c, bs[1])
    ELSE write_bytes(write_bytes(c, SubSeq(bs, 1, Len(bs) \div 2)),
                     SubSeq(bs, (Len(bs) \div 2) + 1, Len(bs)))

\* the body of the for loop of write_qname
write_label(c, label) ==
    IF ~IsOk(c) THEN c
    ELSE IF Len(label) > LABEL_LIMIT THEN Fail(c, "label")
    ELSE write_bytes(write(c, Len(label) % 256), label)

RECURSIVE write_labels(_, _)
write_labels(c, labels) ==
    IF labels = <<>> \/ ~IsOk(c) THEN c
    ELSE write_labels(write_label(c, Head(labels)), Tail(labels))

write_qname(c, qname) == write(write_labels(c, Split(qname)), 0)

\* the assignment self.pos = qname_pos + 2 under "if !jumped"
first_jump_pos_every_pointer(c, qname_pos, jumped) == [c EXCEPT !.pos = qname_pos + 2]

first_jump_pos(c, qname_pos, jumped) ==
    IF ~jumped THEN [c EXCEPT !.pos = qname_pos + 2] ELSE c

RECURSIVE read_qname_loop(_, _, _, _, _, _)
\* the loop of read_qname.  seen is the set of pointer offsets already
\* followed: the scan depends on qname_pos alone, so meeting one of them
\* again means the loop never ends
read_qname_loop(c, qname_pos, jumped, first, out, seen) ==
    Then(get(c, qname_pos), LAMBDA g :
        IF ~IsOk(g) THEN g
        ELSE IF g.val >= 192
        THEN IF qname_pos \in seen THEN Fail(g, "diverge")
             ELSE Then(get(first_jump_pos(g, qname_pos, jumped), qname_pos + 1), LAMBDA g2 :
                      IF ~IsOk(g2) THEN g2
                      ELSE read_qname_loop(g2, ((g.val - 192) * 256) + g2.val, TRUE,
                                           first, out, seen \cup {qname_pos}))
        ELSE IF g.val = 0
        THEN [g EXCEPT !.pos = IF jumped THEN @ ELSE qname_pos + 1, !.val = out]
        ELSE Then(get_range(g, qname_pos + 1, g.val), LAMBDA r :
                 IF ~IsOk(r) THEN r
                 ELSE read_qname_loop(r, qname_pos + 1 + g.val, jumped, FALSE,
                                      out \o (IF first THEN <<>> ELSE <<Dot>>)
                                          \o Lower(Lossy(r.val)),
                                      seen)))

read_qname_guarded(c) ==
    IF ~IsOk(c) THEN c
    ELSE Then(read_qname_loop(c, c.pos, FALSE, TRUE, <<>>, {}), LAMBDA r :
             IF r.err = "diverge" THEN [r EXCEPT !.err = "range"] ELSE r)

read_qname(c) ==
    IF ~IsOk(c) THEN c
    ELSE read_qname_loop(c, c.pos, FALSE, TRUE, <<>>, {})

(***************************************************************************)
(* ResultCode, DnsHeader                                                   *)
(***************************************************************************)

B2N(b) == IF b THEN 1 ELSE 0

Bit(n, k) == (n \div (2 ^ k)) % 2

\* a | b on u8
BitOr8(a, b) ==
    LET o(k) == IF Bit(a, k) = 1 \/ Bit(b, k) = 1 THEN 2 ^ k ELSE 0
    IN  o(0) + o(1) + o(2) + o(3) + o(4) + o(5) + o(6) + o(7)

ResultCodes ==
    <<"Success", "FormError", "ServerFail", "NonexistantDomain", "NotImplemented", "Refused">>

\* ResultCode::from_num; every other number reaches unreachable!()
ResultCode_from_num(num) == IF num <= 5 THEN ResultCodes[num + 1] ELSE "unreachable"

\* rescode as u8: the discriminant, in declaration order
ResultCode_as_u8(r) == (CHOOSE k \in 1..6 : ResultCodes[k] = r) - 1

\* Default::default() of DnsHeader
DefaultHeader ==
    [id |-> 0, recursion_desired |-> FALSE, truncated_message |-> FALSE,
     authoritative_answer |-> FALSE, opcode |-> 0, response |-> FALSE,
     rescode |-> "Success", checking_disabled |-> FALSE, authed_data |-> FALSE,
     z |-> FALSE, recursion_available |-> FALSE,
     questions |-> 0, answers |-> 0, authoritative_entries |-> 0, resource_entries |-> 0]

read_header(c) ==
    Then(read_u16(c), LAMBDA c1 :
    Then(read_u16(c1), LAMBDA c2 :
        IF ~IsOk(c2) THEN c2
        ELSE IF ResultCode_from_num((c2.val % 256) % 16) = "unreachable" THEN Fail(c2, "panic")
        ELSE
    Then(read_u16(c2), LAMBDA c3 :
    Then(read_u16(c3), LAMBDA c4 :
    Then(read_u16(c4), LAMBDA c5 :
    Then(read_u16(c5), LAMBDA c6 :
        IF ~IsOk(c6) THEN c6
        ELSE [c6 EXCEPT !.val =
                 [id |-> c1.val,
                  recursion_desired |-> Bit(c2.val \div 256, 0) = 1,
                  truncated_message |-> Bit(c2.val \div 256, 1) = 1,
                  authoritative_answer |-> Bit(c2.val \div 256, 2) = 1,
                  opcode |-> ((c2.val \div 256) \div 8) % 16,
                  response |-> Bit(c2.val \div 256, 7) = 1,
                  rescode |-> ResultCode_from_num((c2.val % 256) % 16),
                  checking_disabled |-> Bit(c2.val % 256, 4) = 1,
                  authed_data |-> Bit(c2.val % 256, 5) = 1,
                  z |-> Bit(c2.val % 256, 6) = 1,
                  recursion_available |-> Bit(c2.val % 256, 7) = 1,
                  questions |-> c3.val,
                  answers |-> c4.val,
                  authoritative_entries |-> c5.val,
                  resource_entries |-> c6.val]]))))))

write_header(c, header) ==
    write_u16(write_u16(write_u16(write_u16(
        write(write(write_u16(c, header.id),
                    BitOr8(BitOr8(BitOr8(BitOr8(B2N(header.recursion_desired),
                                                B2N(header.truncated_message) * 2),
                                         B2N(header.authoritative_answer) * 4),
                                  (header.opcode * 8) % 256),
                           B2N(header.response) * 128)),
              BitOr8(BitOr8(BitOr8(BitOr8(ResultCode_as_u8(header.rescode),
                                          B2N(header.checking_disabled) * 16),
                                   B2N(header.authed_data) * 32),
                            B2N(header.z) * 64),
                     B2N(header.recursion_available) * 128)),
        header.questions), header.answers),
        header.authoritative_entries), header.resource_entries)

(***************************************************************************)
(* QueryType, DnsQuestion                                                  *)
(***************************************************************************)

QT(tag) == [t |-> tag, n |-> 0]

QUnknown(x) == [t |-> "Unknown", n |-> x]

QueryType_to_num(q) ==
    CASE q.t = "Unknown" -> q.n
      [] q.t = "A" -> 1
      [] q.t = "NS" -> 2
      [] q.t = "CNAME" -> 5
      [] q.t = "MX" -> 15
      [] q.t = "AAAA" -> 28

QueryType_from_num_other_as_a(num) ==
    CASE num = 2 -> QT("NS")
      [] num = 5 -> QT("CNAME")
      [] num = 15 -> QT("MX")
      [] num = 28 -> QT("AAAA")
      [] OTHER -> QT("A")

QueryType_from_num(num) ==
    CASE num = 1 -> QT("A")
      [] num = 2 -> QT("NS")
      [] num = 5 -> QT("CNAME")
      [] num = 15 -> QT("MX")
      [] num = 28 -> QT("AAAA")
      [] OTHER -> QUnknown(num)

read_question(c) ==
    Then(read_qname(c), LAMBDA c1 :
    Then(read_u16(c1), LAMBDA c2 :
    Then(read_u16(c2), LAMBDA c3 :
        IF ~IsOk(c3) THEN c3
        ELSE [c3 EXCEPT !.val = [name |-> c1.val, qtype |-> QueryType_from_num(c2.val)]])))

write_question(c, question) ==
    write_u16(write_u16(write_qname(c, question.name), QueryType_to_num(question.qtype)), 1)

(***************************************************************************)
(* DnsRecord                                                               *)
(***************************************************************************)

\* Ipv4Addr::from(u32): the four octets, most significant first
Ipv4FromU32(v) == <<v[1] \div 256, v[1] % 256, v[2] \div 256, v[2] % 256>>

RECURSIVE read_u16s(_, _, _)
\* n times self.read_u16()?, the values in order
read_u16s(c, n, got) ==
    IF n = 0 \/ ~IsOk(c) THEN (IF IsOk(c) THEN [c EXCEPT !.val = got] ELSE c)
    ELSE Then(read_u16(c), LAMBDA r :
             IF ~IsOk(r) THEN r ELSE read_u16s(r, n - 1, Append(got, r.val)))

\* the match on the record type in read_record
read_record_body(c, qtype, domain, ttl, data_len) ==
    CASE qtype.t = "A" ->
            Then(read_u32(c), LAMBDA r :
                IF ~IsOk(r) THEN r
                ELSE [r EXCEPT !.val = [kind |-> "A", domain |-> domain,
                                        addr |-> Ipv4FromU32(r.val), ttl |-> ttl]])
      [] qtype.t = "AAAA" ->
            Then(read_u16s(c, 8, <<>>), LAMBDA r :
                IF ~IsOk(r) THEN r
                ELSE [r EXCEPT !.val = [kind |-> "AAAA", domain |-> domain,
                                        addr |-> r.val, ttl |-> ttl]])
      [] qtype.t = "NS" ->
            Then(read_qname(c), LAMBDA r :
                IF ~IsOk(r) THEN r
                ELSE [r EXCEPT !.val = [kind |-> "NS", domain |-> domain,
                                        host |-> r.val, ttl |-> ttl]])
      [] qtype.t = "CNAME" ->
            Then(read_qname(c), LAMBDA r :
                IF ~IsOk(r) THEN r
                ELSE [r EXCEPT !.val = [kind |-> "CNAME", domain |-> domain,
                                        host |-> r.val, ttl |-> ttl]])
      [] qtype.t = "MX" ->
            Then(read_u16(c), LAMBDA r1 :
            Then(read_qname(r1), LAMBDA r2 :
                IF ~IsOk(r2) THEN r2
                ELSE [r2 EXCEPT !.val = [kind |-> "MX", domain |-> domain,
                                         priority |-> r1.val, host |-> r2.val,
                                         ttl |-> ttl]]))
      [] qtype.t = "Unknown" ->
            [c EXCEPT !.pos = @ + data_len,
                      !.val = [kind |-> "Unknown", domain |-> domain, qtype |-> qtype.n,
                               data_len |-> data_len, ttl |-> ttl]]

read_record(c) ==
    Then(read_qname(c), LAMBDA c1 :
    Then(read_u16(c1), LAMBDA c2 :
    Then(read_u16(c2), LAMBDA c3 :
    Then(read_u32(c3), LAMBDA c4 :
    Then(read_u16(c4), LAMBDA c5 :
        IF ~IsOk(c5) THEN c5
        ELSE read_record_body(c5, QueryType_from_num(c2.val), c1.val, c4.val, c5.val))))))

\* name, type, class and TTL: the start of every arm of write_record
write_record_head(c, domain, qtype, ttl) ==
    write_u32(write_u16(write_u16(write_qname(c, domain), QueryType_to_num(qtype)), 1), ttl)

RECURSIVE write_u16s(_, _)
write_u16s(c, vs) ==
    IF vs = <<>> \/ ~IsOk(c) THEN c
    ELSE write_u16s(write_u16(c, Head(vs)), Tail(vs))

write_record_patched_with_placeholder(c, priority, host) ==
    Then(write_qname(IF priority = -1 THEN write_u16(c, 0)
                     ELSE write_u16(write_u16(c, 0), priority), host), LAMBDA c3 :
        IF ~IsOk(c3) THEN c3 ELSE set_u16(c3, c.pos, (c3.pos - c.pos) % 65536))

\* the NS, CNAME and MX arms: placeholder, payload, back-patched length
write_record_patched(c, priority, host) ==
    Then(write_qname(IF priority = -1 THEN write_u16(c, 0)
                     ELSE write_u16(write_u16(c, 0), priority), host), LAMBDA c3 :
        IF ~IsOk(c3) THEN c3 ELSE set_u16(c3, c.pos, (c3.pos - (c.pos + 2)) % 65536))

write_record(c, record) ==
    Then(CASE record.kind = "A" ->
                write_bytes(write_u16(write_record_head(c, record.domain, QT("A"),
                                                        record.ttl), 4),
                            record.addr)
           [] record.kind = "NS" ->
                write_record_patched(write_record_head(c, record.domain, QT("NS"),
                                                       record.ttl), -1, record.host)
           [] record.kind = "CNAME" ->
                write_record_patched(write_record_head(c, record.domain, QT("CNAME"),
                                                       record.ttl), -1, record.host)
           [] record.kind = "MX" ->
                write_record_patched(write_record_head(c, record.domain, QT("MX"),
                                                       record.ttl),
                                     record.priority, record.host)
           [] record.kind = "AAAA" ->
                write_u16s(write_u16(write_record_head(c, record.domain, QT("AAAA"),
                                                       record.ttl), 16),
                           record.addr)
           [] OTHER -> c,
         LAMBDA w : IF ~IsOk(w) THEN w ELSE [w EXCEPT !.val = w.pos - c.pos])

(***************************************************************************)
(* DnsPacket                                                               *)
(***************************************************************************)

DefaultPacket ==
    [header |-> DefaultHeader, questions |-> <<>>, answers |-> <<>>,
     authorities |-> <<>>, resources |-> <<>>]

\* Result::unwrap(): an Err becomes a panic
Unwrap(c) == IF c.err \in {"range", "label"} THEN Fail(c, "panic") ELSE c

RECURSIVE read_questions(_, _, _)
\* iter::repeat_with(|| self.read_question().unwrap()).take(n).collect()
read_questions(c, n, got) ==
    IF n = 0 THEN [c EXCEPT !.val = got]
    ELSE Then(Unwrap(read_question(c)), LAMBDA q :
             IF ~IsOk(q) THEN q ELSE read_questions(q, n - 1, Append(got, q.val)))

RECURSIVE read_records(_, _, _)
\* iter::repeat_with(|| self.read_record().unwrap()).take(n).collect()
read_records(c, n, got) ==
    IF n = 0 THEN [c EXCEPT !.val = got]
    ELSE Then(Unwrap(read_record(c)), LAMBDA r :
             IF ~IsOk(r) THEN r ELSE read_records(r, n - 1, Append(got, r.val)))

read_packet(c) ==
    Then(read_header(c), LAMBDA h :
        IF ~IsOk(h) THEN h ELSE
    Then(read_questions(h, h.val.questions, <<>>), LAMBDA qs :
        IF ~IsOk(qs) THEN qs ELSE
    Then(read_records(qs, h.val.answers, <<>>), LAMBDA an :
        IF ~IsOk(an) THEN an ELSE
    Then(read_records(an, h.val.authoritative_entries, <<>>), LAMBDA au :
        IF ~IsOk(au) THEN au ELSE
    Then(read_records(au, h.val.resource_entries, <<>>), LAMBDA re :
        IF ~IsOk(re) THEN re
        ELSE [re EXCEPT !.val = [header |-> h.val, questions |-> qs.val,
                                 answers |-> an.val, authorities |-> au.val,
                                 resources |-> re.val]])))))

RECURSIVE write_questions(_, _)
write_questions(c, qs) ==
    IF qs = <<>> \/ ~IsOk(c) THEN c
    ELSE write_questions(write_question(c, Head(qs)), Tail(qs))

RECURSIVE write_records_stop_at_unknown(_, _)
write_records_stop_at_unknown(c, rs) ==
    IF rs = <<>> \/ ~IsOk(c) THEN c
    ELSE IF Head(rs).kind = "Unknown" THEN c
    ELSE write_records_stop_at_unknown(write_record(c, Head(rs)), Tail(rs))

RECURSIVE write_records(_, _)
write_records(c, rs) ==
    IF rs = <<>> \/ ~IsOk(c) THEN c
    ELSE write_records(write_record(c, Head(rs)), Tail(rs))

write_packet(c, packet) ==
    Then(write_records(write_records(write_records(
             write_questions(write_header(c, packet.header), packet.questions),
             packet.answers), packet.authorities), packet.resources),
         LAMBDA w : IF ~IsOk(w) THEN w ELSE [w EXCEPT !.val = 0])

(***************************************************************************)
(* The buffer under test                                                   *)
(***************************************************************************)

MaxOps == 3

codecVars == <<buf, pos, last, ops, held>>

serverVars == <<pc, request, stack, wire, outbox, served, ev>>

vars == <<buf, pos, last, ops, held, pc, request, stack, wire, outbox, served, ev>>

\* BytePacketBuffer::new()
ZeroBuf == [i \in 0..(MAX_BUFFER_SIZE - 1) |-> 0]

\* a buffer whose array was filled from the bytes d (from_file, recv_from)
Pad(d) == [i \in 0..(MAX_BUFFER_SIZE - 1) |-> IF i < Len(d) THEN d[i + 1] ELSE 0]

NoCall == [op |-> "none", args |-> <<>>, err |-> "none", val |-> 0, acc |-> -1,
           pos0 |-> 0, kept |-> TRUE]

\* the state after the call op(args) returned r
Called(op, args, r) ==
    /\ buf' = r.buf
    /\ pos' = r.pos
    /\ last' = [op |-> op, args |-> args, err |-> r.err, val |-> r.val, acc |-> r.acc,
                pos0 |-> pos, kept |-> (r.buf = buf)]
    /\ ops' = ops + 1
    /\ UNCHANGED serverVars

Here == Cursor(buf, pos)

Nothing == [kind |-> "none"]

\* serve blocked in its first recv_from
ServerIdle ==
    /\ pc = "recv"
    /\ request = Nothing
    /\ stack = <<>>
    /\ wire = <<>>
    /\ outbox = <<>>
    /\ served = 0
    /\ ev = Nothing

\* the cursor positions the calls start from: the start and the last bytes
PosChoices == {0} \cup ((MAX_BUFFER_SIZE - 4)..(MAX_BUFFER_SIZE + 1))

ByteChoices == {171}

WordChoices == {4660}

CursorInit ==
    /\ buf = ZeroBuf
    /\ pos \in PosChoices
    /\ last = NoCall
    /\ ops = 0
    /\ held = Nothing
    /\ ServerIdle

DoRead == ops < MaxOps /\ Called("read", <<>>, read(Here)) /\ UNCHANGED held

DoReadU16 == ops < MaxOps /\ Called("read_u16", <<>>, read_u16(Here)) /\ UNCHANGED held

DoReadU32 == ops < MaxOps /\ Called("read_u32", <<>>, read_u32(Here)) /\ UNCHANGED held

DoGet ==
    /\ ops < MaxOps
    /\ \E p \in PosChoices : Called("get", <<p>>, get(Here, p))
    /\ UNCHANGED held

DoGetRange ==
    /\ ops < MaxOps
    /\ \E start \in PosChoices, len \in {0, 1, 3} :
          Called("get_range", <<start, len>>, get_range(Here, start, len))
    /\ UNCHANGED held

DoWrite ==
    /\ ops < MaxOps
    /\ \E v \in ByteChoices : Called("write", <<v>>, write(Here, v))
    /\ UNCHANGED held

DoWriteU16 ==
    /\ ops < MaxOps
    /\ \E v \in WordChoices : Called("write_u16", <<v>>, write_u16(Here, v))
    /\ UNCHANGED held

DoWriteU32 ==
    /\ ops < MaxOps
    /\ \E v \in WordChoices : Called("write_u32", <<v>>, write_u32(Here, <<v, v>>))
    /\ UNCHANGED held

DoSet ==
    /\ ops < MaxOps
    /\ \E p \in PosChoices, v \in ByteChoices : Called("set", <<p, v>>, set(Here, p, v))
    /\ UNCHANGED held

DoSetU16 ==
    /\ ops < MaxOps
    /\ \E p \in PosChoices, v \in WordChoices :
          Called("set_u16", <<p, v>>, set_u16(Here, p, v))
    /\ UNCHANGED held

CursorNext ==
    \/ DoRead \/ DoReadU16 \/ DoReadU32 \/ DoGet \/ DoGetRange
    \/ DoWrite \/ DoWriteU16 \/ DoWriteU32 \/ DoSet \/ DoSetU16

CursorSpec == CursorInit /\ [][CursorNext]_vars

\* the highest array index the last call has to touch to do what it is
\* asked (-1: none), from its arguments and the position it started at
WouldTouch ==
    CASE last.op = "read" -> last.pos0
      [] last.op = "read_u16" -> last.pos0 + 1
      [] last.op = "read_u32" -> last.pos0 + 3
      [] last.op = "get" -> last.args[1]
      [] last.op = "get_range" ->
            IF last.args[2] = 0 THEN -1 ELSE last.args[1] + last.args[2] - 1
      [] last.op = "write" -> last.pos0
      [] last.op = "write_u16" -> last.pos0 + 1
      [] last.op = "write_u32" -> last.pos0 + 3
      [] last.op = "set" -> last.args[1]
      [] last.op = "set_u16" -> last.args[1] + 1
      [] OTHER -> -1

\* C1: a cursor operation that would touch an index >= 512 returns the
\* out-of-range error, and no operation ever indexes the array at an index
\* >= 512 (neither by a checked access nor by one the bounds check of the
\* language has to stop).
C1_BoundsSafety ==
    /\ last.acc < MAX_BUFFER_SIZE
    /\ last.err # "panic"
    /\ WouldTouch >= MAX_BUFFER_SIZE => last.err = "range"

\* C1 witness: a write_u16 started at the last byte: the first byte is
\* written at 511 and the second is refused
C1_Witness ==
    /\ last.op = "write_u16"
    /\ last.pos0 = MAX_BUFFER_SIZE - 1
    /\ last.err = "range"
    /\ last.acc = MAX_BUFFER_SIZE - 1
    /\ buf[MAX_BUFFER_SIZE - 1] # 0

(***************************************************************************)
(* Names in the buffer under test                                          *)
(***************************************************************************)

RFC_LABEL_MAX == 63

Rep(b, n) == [k \in 1..n |-> b]

\* "w.x", "x", and names around the two label limits: the 52 (0x34) the
\* code compares with and the 63 of its error message
NameChoices ==
    { <<120>>,
      <<119, Dot, 120>>,
      Rep(98, LABEL_LIMIT) \o <<Dot, 120>>,
      <<119, Dot>> \o Rep(98, LABEL_LIMIT + 1),
      <<119, Dot>> \o Rep(98, RFC_LABEL_MAX),
      <<119, Dot>> \o Rep(98, RFC_LABEL_MAX + 1),
      Rep(98, RFC_LABEL_MAX + 1) \o <<Dot, 120>> }

\* the labels of the laid-out names, as stored and as expected back
LabelChoices ==
    { [raw |-> <<119>>, low |-> <<119>>],
      [raw |-> <<88, 121>>, low |-> <<120, 121>>] }

\* the label sequences of one segment of a laid-out name
SegChoices ==
    {<<>>} \cup {<<l>> : l \in LabelChoices}
           \cup {<<l, m>> : l \in {[raw |-> <<119>>, low |-> <<119>>]},
                            m \in {[raw |-> <<88, 121>>, low |-> <<120, 121>>]}}

MaxPointers == 2

RECURSIVE PlainLabels(_)
\* labels as length byte and bytes, with no terminator
PlainLabels(ls) ==
    IF ls = <<>> THEN <<>>
    ELSE <<Len(Head(ls).raw)>> \o Head(ls).raw \o PlainLabels(Tail(ls))

RECURSIVE JoinLow(_)
JoinLow(ls) ==
    IF ls = <<>> THEN <<>>
    ELSE IF Len(ls) = 1 THEN Head(ls).low
    ELSE Head(ls).low \o <<Dot>> \o JoinLow(Tail(ls))

RECURSIVE Flatten(_)
Flatten(segs) == IF segs = <<>> THEN <<>> ELSE Head(segs) \o Flatten(Tail(segs))

Ptr(off) == <<192 + (off \div 256), off % 256>>

LEAD == 12

RECURSIVE SegOff(_, _)
\* the offset of segment i: the segments lie last one first after the lead
SegOff(segs, i) ==
    IF i = Len(segs) THEN LEAD
    ELSE SegOff(segs, i + 1) + Len(PlainLabels(segs[i + 1]))
         + (IF i + 1 = Len(segs) THEN 1 ELSE 2)

RECURSIVE SegBytes(_, _)
\* segments i, i-1, ..., 1: the last segment of the name ends with the zero
\* byte, every other one with a pointer to the segment that continues it
SegBytes(segs, i) ==
    IF i = 0 THEN <<>>
    ELSE PlainLabels(segs[i])
         \o (IF i = Len(segs) THEN <<0>> ELSE Ptr(SegOff(segs, i + 1)))
         \o SegBytes(segs, i - 1)

\* a buffer image holding a name in segments chained by compression
\* pointers, with, for every segment, the name a reader starting there is
\* to get and the offset its cursor is to end at
Layout(segs) ==
    [kind |-> "layout",
     bytes |-> Rep(0, LEAD) \o SegBytes(segs, Len(segs)),
     names |-> { [start |-> SegOff(segs, i),
                  name |-> JoinLow(Flatten(SubSeq(segs, i, Len(segs)))),
                  end |-> SegOff(segs, i) + Len(PlainLabels(segs[i]))
                          + (IF i = Len(segs) THEN 1 ELSE 2),
                  pointers |-> Len(segs) - i] : i \in 1..Len(segs) }]

Layouts == { Layout(segs) : segs \in UNION { [1..n -> SegChoices] : n \in 1..(MaxPointers + 1) } }

NameInit ==
    /\ buf = ZeroBuf
    /\ pos = 0
    /\ last = NoCall
    /\ ops = 0
    /\ held = Nothing
    /\ ServerIdle

\* BytePacketBuffer::new()
NewBuffer ==
    /\ buf' = ZeroBuf
    /\ pos' = 0
    /\ last' = NoCall
    /\ ops' = 0
    /\ held' = Nothing
    /\ UNCHANGED serverVars

\* a buffer filled with a laid-out name, the cursor past the 12-byte lead
LoadLayout ==
    \E l \in Layouts :
        /\ last.op = "none"
        /\ held.kind = "none"
        /\ buf' = Pad(l.bytes)
        /\ pos' = LEAD
        /\ last' = NoCall
        /\ ops' = 0
        /\ held' = l
        /\ UNCHANGED serverVars

DoReadQname ==
    /\ ops < MaxOps
    /\ Called("read_qname", <<>>, read_qname(Here))
    /\ UNCHANGED held

DoWriteQname ==
    /\ ops < MaxOps
    /\ held.kind = "none"
    /\ \E qname \in NameChoices : Called("write_qname", <<qname>>, write_qname(Here, qname))
    /\ UNCHANGED held

NameNext == NewBuffer \/ LoadLayout \/ DoReadQname \/ DoWriteQname

NameSpec == NameInit /\ [][NameNext]_vars

RECURSIVE FirstStop(_, _)
\* where a reader that follows no pointer stops: two bytes past the first
\* pointer, or one byte past the zero length byte, whichever comes first
FirstStop(b, p) ==
    IF p >= MAX_BUFFER_SIZE THEN -1
    ELSE IF b[p] >= 192 THEN p + 2
    ELSE IF b[p] = 0 THEN p + 1
    ELSE FirstStop(b, p + 1 + b[p])

\* C9: a read_qname that returns a name returns the expanded lowercase
\* dotted name (all labels of all segments, in order, joined by dots) and
\* leaves the cursor two bytes past the first pointer of the name, or one
\* byte past the zero length byte when the name has no pointer; the
\* pointers met later do not move it.
C9_NameDecompression ==
    (last.op = "read_qname" /\ last.err = "none") =>
        /\ pos = FirstStop(buf, last.pos0)
        /\ last.kept
        /\ held.kind = "layout" =>
              \A e \in held.names :
                  e.start = last.pos0 => (last.val = e.name /\ pos = e.end)

\* C9 witness: a name of two labels in mixed case continued through two
\* pointers has been read
C9_Witness ==
    /\ last.op = "read_qname"
    /\ last.err = "none"
    /\ held.kind = "layout"
    /\ \E e \in held.names :
          /\ e.start = last.pos0
          /\ e.pointers = 2
          /\ last.val = <<119, Dot, 120, 121>>
          /\ pos = e.end

HasLongLabel(qname) == \E k \in 1..Len(Split(qname)) : Len(Split(qname)[k]) > RFC_LABEL_MAX

\* C10: write_qname on a name with a label longer than 63 bytes returns the
\* label-too-long error and leaves the buffer contents and the cursor
\* position as they were before the call.
C10_NoPartialWrite ==
    (last.op = "write_qname" /\ HasLongLabel(last.args[1])) =>
        (last.err = "label" /\ last.kept /\ pos = last.pos0)

(***************************************************************************)
(* Packets in the buffer under test                                        *)
(***************************************************************************)

\* "x", "w.x", "n.x", "n.y" and "y"
NameX == <<120>>

NameWX == <<119, Dot, 120>>

NameNX == <<110, Dot, 120>>

NameNY == <<110, Dot, 121>>

NameY == <<121>>

\* a name whose first label has n bytes: "bbb...b.x"
NameLong(n) == Rep(98, n) \o <<Dot, 120>>

RecA(domain, addr) == [kind |-> "A", domain |-> domain, addr |-> addr, ttl |-> <<1, 300>>]

RecNS(domain, host) == [kind |-> "NS", domain |-> domain, host |-> host, ttl |-> <<0, 60>>]

RecCNAME(domain, host) ==
    [kind |-> "CNAME", domain |-> domain, host |-> host, ttl |-> <<0, 60>>]

RecMX(domain, host) ==
    [kind |-> "MX", domain |-> domain, priority |-> 10, host |-> host, ttl |-> <<0, 60>>]

RecAAAA(domain) ==
    [kind |-> "AAAA", domain |-> domain, addr |-> <<8193, 3512, 0, 0, 0, 0, 0, 65535>>,
     ttl |-> <<65535, 65535>>]

RecUnknown(domain, qtype, data_len) ==
    [kind |-> "Unknown", domain |-> domain, qtype |-> qtype, data_len |-> data_len,
     ttl |-> <<0, 60>>]

\* a packet whose four counts are the lengths of its sections
Packet(id, response, rescode, questions, answers, authorities, resources) ==
    [header |-> [DefaultHeader EXCEPT
                    !.id = id, !.response = response, !.recursion_desired = TRUE,
                    !.recursion_available = response, !.rescode = rescode,
                    !.questions = Len(questions), !.answers = Len(answers),
                    !.authoritative_entries = Len(authorities),
                    !.resource_entries = Len(resources)],
     questions |-> questions, answers |-> answers,
     authorities |-> authorities, resources |-> resources]

Question(name, tag) == [name |-> name, qtype |-> QT(tag)]

QuestionChoices ==
    { <<>>, <<Question(NameWX, "A")>>, <<Question(NameX, "MX"), Question(NameWX, "AAAA")>>,
      <<[name |-> NameWX, qtype |-> QUnknown(16)]>>,
      <<Question(NameLong(LABEL_LIMIT), "A")>>,
      <<Question(NameLong(LABEL_LIMIT + 1), "A")>>,
      <<Question(NameLong(RFC_LABEL_MAX), "A")>> }

AnswerChoices ==
    { <<>>, <<RecA(NameWX, <<10, 0, 0, 255>>)>>,
      <<RecCNAME(NameWX, NameNX), RecA(NameNX, <<192, 168, 1, 1>>)>>,
      <<RecMX(NameX, NameNX), RecAAAA(NameNX)>>,
      <<RecUnknown(NameWX, 16, 3), RecA(NameWX, <<10, 0, 0, 255>>)>> }

AuthorityChoices == { <<>>, <<RecNS(NameX, NameNX)>> }

ResourceChoices == { <<>>, <<RecA(NameNX, <<10, 0, 0, 1>>)>> }

PacketChoices ==
    { Packet(id, r, rc, q, an, au, re) :
        id \in {6666}, r \in {TRUE}, rc \in {"Success", "NonexistantDomain"},
        q \in QuestionChoices, an \in AnswerChoices, au \in AuthorityChoices,
        re \in ResourceChoices }
    \cup { Packet(65535, FALSE, "Refused", <<Question(NameWX, "A")>>, <<>>, <<>>, <<>>),
           [Packet(1, FALSE, "Success", <<Question(NameWX, "A")>>, <<>>, <<>>, <<>>)
               EXCEPT !.header.opcode = 15, !.header.truncated_message = TRUE,
                      !.header.authoritative_answer = TRUE, !.header.z = TRUE,
                      !.header.checking_disabled = TRUE, !.header.authed_data = TRUE] }

\* the first n bytes of the array
Bytes(b, n) == [k \in 1..n |-> b[k - 1]]

PacketInit == NameInit

\* write_packet, called as the source calls it: on a new buffer
DoWritePacket ==
    /\ ops < MaxOps
    /\ last.op = "none"
    /\ held.kind = "none"
    /\ \E m \in PacketChoices :
          /\ Called("write_packet", <<m>>, write_packet(Here, m))
          /\ held' = [kind |-> "packet", m |-> m]

\* the bytes buf[0..pos] handed over and received in a new buffer, as the
\* transport does between a writer and a reader
Transfer ==
    /\ last.op = "write_packet"
    /\ last.err = "none"
    /\ pos <= MAX_BUFFER_SIZE
    /\ buf' = Pad(Bytes(buf, pos))
    /\ pos' = 0
    /\ last' = [NoCall EXCEPT !.op = "transfer"]
    /\ UNCHANGED <<ops, held>>
    /\ UNCHANGED serverVars

DoReadPacket ==
    /\ ops < MaxOps
    /\ Called("read_packet", <<>>, read_packet(Here))
    /\ UNCHANGED held

PacketNext == NewBuffer \/ DoWritePacket \/ Transfer \/ DoReadPacket

PacketSpec == PacketInit /\ [][PacketNext]_vars

IsLowerName(name) ==
    /\ name # <<>>
    /\ \A k \in 1..Len(name) :
          \/ name[k] >= 97 /\ name[k] <= 122
          \/ name[k] >= 48 /\ name[k] <= 57
          \/ name[k] = 45
          \/ name[k] = Dot
    /\ \A k \in 1..Len(Split(name)) :
          Len(Split(name)[k]) >= 1 /\ Len(Split(name)[k]) <= RFC_LABEL_MAX

RecordNames(r) == IF r.kind \in {"NS", "CNAME", "MX"} THEN {r.domain, r.host} ELSE {r.domain}

AllRecords(m) == m.answers \o m.authorities \o m.resources

\* the bytes of the uncompressed encoding of one record
RecordSize(r) ==
    Len(r.domain) + 2 + 10 +
    (CASE r.kind = "A" -> 4
       [] r.kind = "AAAA" -> 16
       [] r.kind = "MX" -> 2 + Len(r.host) + 2
       [] r.kind \in {"NS", "CNAME"} -> Len(r.host) + 2
       [] OTHER -> 0)

RECURSIVE SumSizes(_)
SumSizes(rs) == IF rs = <<>> THEN 0 ELSE RecordSize(Head(rs)) + SumSizes(Tail(rs))

RECURSIVE SumQuestions(_)
SumQuestions(qs) ==
    IF qs = <<>> THEN 0 ELSE Len(Head(qs).name) + 2 + 4 + SumQuestions(Tail(qs))

EncodedSize(m) == 12 + SumQuestions(m.questions) + SumSizes(AllRecords(m))

\* the packets the round trip is claimed for
RoundTripInput(m) ==
    /\ m.header.questions = Len(m.questions)
    /\ m.header.answers = Len(m.answers)
    /\ m.header.authoritative_entries = Len(m.authorities)
    /\ m.header.resource_entries = Len(m.resources)
    /\ \A k \in 1..Len(AllRecords(m)) :
          /\ AllRecords(m)[k].kind # "Unknown"
          /\ \A n \in RecordNames(AllRecords(m)[k]) : IsLowerName(n)
    /\ \A k \in 1..Len(m.questions) : IsLowerName(m.questions[k].name)
    /\ EncodedSize(m) <= MAX_BUFFER_SIZE

\* C2: for a packet without Unknown records, with counts that match its
\* sections, lowercase names with labels of at most 63 bytes and an encoding
\* of at most 512 bytes, write_packet into a new buffer succeeds and
\* read_packet from offset 0 of the bytes written returns the same packet.
C2_RoundTrip ==
    (held.kind = "packet" /\ RoundTripInput(held.m)) =>
        /\ last.op = "write_packet" => last.err = "none"
        /\ (last.op = "read_packet" /\ last.pos0 = 0) =>
              (last.err = "none" /\ last.val = held.m)

(***************************************************************************)
(* The resolver (src/main.rs): lookup and recursive_lookup                 *)
(***************************************************************************)

\* "198.41.0.4"
ROOT_SERVER == <<49, 57, 56, Dot, 52, 49, Dot, 48, Dot, 52>>

DNS_PORT == 53

QUERY_ID == 6666

RECURSIVE Decimal(_)
\* the decimal digits of n
Decimal(n) == IF n < 10 THEN <<48 + n>> ELSE Decimal(n \div 10) \o <<48 + (n % 10)>>

\* Ipv4Addr::to_string(): the address as the string get_resolved_ns and
\* get_random_a return
AddrToString(a) ==
    Decimal(a[1]) \o <<Dot>> \o Decimal(a[2]) \o <<Dot>> \o Decimal(a[3]) \o <<Dot>>
        \o Decimal(a[4])

RECURSIVE ParseDecimal(_, _)
ParseDecimal(s, n) ==
    IF s = <<>> THEN n
    ELSE IF n > 255 THEN n
    ELSE ParseDecimal(Tail(s), (n * 10) + (Head(s) - 48))

IsDecimalOctet(s) ==
    /\ Len(s) >= 1
    /\ Len(s) <= 3
    /\ \A k \in 1..Len(s) : s[k] >= 48 /\ s[k] <= 57
    /\ ParseDecimal(s, 0) <= 255

\* (ns.as_str(), 53) as send_to resolves it: the address a dotted-decimal
\* string denotes; any other string is not resolved here
ToSocketAddr(s) ==
    IF Len(Split(s)) = 4 /\ \A k \in 1..4 : IsDecimalOctet(Split(s)[k])
    THEN [ok |-> TRUE, ip |-> [k \in 1..4 |-> ParseDecimal(Split(s)[k], 0)]]
    ELSE [ok |-> FALSE, ip |-> <<>>]

\* qname.ends_with(domain)
EndsWith(qname, domain) ==
    /\ Len(domain) <= Len(qname)
    /\ SubSeq(qname, Len(qname) - Len(domain) + 1, Len(qname)) = domain

\* the targets of the authority section's NS records for a suffix of qname
NsHosts(response, qname) ==
    { response.authorities[k].host : k \in
        { j \in 1..Len(response.authorities) :
            /\ response.authorities[j].kind = "NS"
            /\ EndsWith(qname, response.authorities[j].domain) } }

\* DnsPacket::get_resolved_ns: the addresses, as strings, of the additional
\* section's A records owned by such a target; the caller is given one
get_resolved_ns(response, qname) ==
    { AddrToString(response.resources[k].addr) : k \in
        { j \in 1..Len(response.resources) :
            /\ response.resources[j].kind = "A"
            /\ response.resources[j].domain \in NsHosts(response, qname) } }

\* DnsPacket::get_unresolved_ns: the targets themselves; the caller is given one
get_unresolved_ns(response, qname) == NsHosts(response, qname)

\* DnsPacket::get_random_a: the addresses, as strings, of the answer section's
\* A records; the caller is given one
get_random_a(response) ==
    { AddrToString(response.answers[k].addr) : k \in
        { j \in 1..Len(response.answers) : response.answers[j].kind = "A" } }

\* the packet lookup builds
Query(name, qtype) ==
    [DefaultPacket EXCEPT !.header.id = QUERY_ID, !.header.questions = 1,
                          !.header.recursion_desired = TRUE,
                          !.questions = <<[name |-> name, qtype |-> qtype]>>]

\* "10.0.0.1"
Frame_other_start(qname, qtype) ==
    [qname |-> qname, qtype |-> qtype, ns |-> <<49, 48, Dot, 48, Dot, 48, Dot, 49>>,
     queries |-> 0, response |-> Nothing]

\* a new invocation of recursive_lookup
Frame(qname, qtype) ==
    [qname |-> qname, qtype |-> qtype, ns |-> ROOT_SERVER, queries |-> 0,
     response |-> Nothing]

Top(stk) == stk[Len(stk)]

Pop(stk) == SubSeq(stk, 1, Len(stk) - 1)

\* what a step leaves: the position, the invocations, the queries sent, the
\* result recursive_lookup gave serve, what failed, the invocations returned
Move(p, stk, w, result, fault, rets) ==
    [pc |-> p, stack |-> stk, wire |-> w, result |-> result, fault |-> fault,
     returns |-> rets]

Transport == {"ok", "bind_err", "send_err"}

\* lookup up to its recv_from, for the innermost invocation: the query
\* encoded, the socket bound, the datagram sent; each failure is an unwrap()
Send(stk, w, t, rets) ==
    Then(write_packet(Cursor(ZeroBuf, 0), Query(Top(stk).qname, Top(stk).qtype)), LAMBDA enc :
        IF ~IsOk(enc) THEN Move("crashed", stk, w, Nothing, "encode", rets)
        ELSE IF t = "bind_err" THEN Move("crashed", stk, w, Nothing, "bind", rets)
        ELSE IF t = "send_err" \/ ~ToSocketAddr(Top(stk).ns).ok
        THEN Move("crashed", stk, w, Nothing, "send", rets)
        ELSE Move("await",
                  [stk EXCEPT ![Len(stk)].queries = @ + 1],
                  Append(w, [dst |-> ToSocketAddr(Top(stk).ns).ip, port |-> DNS_PORT,
                             data |-> Bytes(enc.buf, enc.pos), depth |-> Len(stk)]),
                  Nothing, "none", rets))

\* the reply ends the resolution with its answers
IsTerminalSuccess_without_answers(response) ==
    response.answers = <<>> /\ response.header.rescode = "Success"

IsTerminalSuccess_any_success(response) == response.header.rescode = "Success"

IsTerminalSuccess(response) ==
    response.answers # <<>> /\ response.header.rescode = "Success"

IsTerminalNegative_other_code(response) == response.header.rescode = "ServerFail"

\* the reply says the name does not exist
IsTerminalNegative(response) == response.header.rescode = "NonexistantDomain"

AdoptNs_keeps_server(frame, new_ns) == [frame EXCEPT !.response = Nothing]

\* ns = new_ns.clone()
AdoptNs(frame, new_ns) == [frame EXCEPT !.ns = new_ns, !.response = Nothing]

RECURSIVE Return(_, _, _, _, _)
\* the innermost invocation returns Ok(result): to serve, or into the
\* invocation that called it, which takes an address of the result as its ns
\* and goes round its loop again, or else returns the response it held
Return(stk, result, w, t, rets) ==
    IF Len(stk) = 1
    THEN { Move("recv", <<>>, w, result, "none",
                Append(rets, [depth |-> 1, result |-> result,
                              queries |-> Top(stk).queries])) }
    ELSE IF get_random_a(result) = {}
    THEN Return(Pop(stk), Top(Pop(stk)).response, w, t,
                Append(rets, [depth |-> Len(stk), result |-> result,
                              queries |-> Top(stk).queries]))
    ELSE { Send([Pop(stk) EXCEPT ![Len(stk) - 1] = AdoptNs(@, a)], w, t,
                Append(rets, [depth |-> Len(stk), result |-> result,
                              queries |-> Top(stk).queries])) :
             a \in get_random_a(result) }

\* the body of recursive_lookup's loop after lookup returned response
Decide(stk, response, w, t) ==
    IF IsTerminalSuccess(response) THEN Return(stk, response, w, t, <<>>)
    ELSE IF IsTerminalNegative(response) THEN Return(stk, response, w, t, <<>>)
    ELSE IF get_resolved_ns(response, Top(stk).qname) # {}
    THEN { Send([stk EXCEPT ![Len(stk)] = AdoptNs(@, a)], w, t, <<>>) :
             a \in get_resolved_ns(response, Top(stk).qname) }
    ELSE IF get_unresolved_ns(response, Top(stk).qname) = {}
    THEN Return(stk, response, w, t, <<>>)
    ELSE { Send(Append([stk EXCEPT ![Len(stk)].response = response],
                       Frame(n, QT("A"))), w, t, <<>>) :
             n \in get_unresolved_ns(response, Top(stk).qname) }

(***************************************************************************)
(* The server (src/main.rs): serve                                         *)
(***************************************************************************)

Ok(v) == [ok |-> TRUE, v |-> v]

Err == [ok |-> FALSE, v |-> Nothing]

\* the packet serve builds for a request, given what recursive_lookup returned
Response(req, result) ==
    IF req.questions = <<>>
    THEN [DefaultPacket EXCEPT !.header.id = req.header.id,
                               !.header.recursion_desired = TRUE,
                               !.header.recursion_available = TRUE,
                               !.header.response = TRUE,
                               !.header.rescode = "FormError"]
    ELSE IF ~result.ok
    THEN [DefaultPacket EXCEPT !.header.id = req.header.id,
                               !.header.recursion_desired = TRUE,
                               !.header.recursion_available = TRUE,
                               !.header.response = TRUE,
                               !.header.rescode = "ServerFail"]
    ELSE [DefaultPacket EXCEPT !.header.id = req.header.id,
                               !.header.recursion_desired = TRUE,
                               !.header.recursion_available = TRUE,
                               !.header.response = TRUE,
                               !.questions = <<req.questions[1]>>,
                               !.header.questions = 1,
                               !.header.rescode = result.v.header.rescode,
                               !.answers = result.v.answers,
                               !.authorities = result.v.authorities,
                               !.resources = result.v.resources,
                               !.header.answers = result.v.header.answers,
                               !.header.authoritative_entries =
                                   result.v.header.authoritative_entries,
                               !.header.resource_entries = result.v.header.resource_entries]

\* the end of serve's else branch: the packet encoded and sent to src; each
\* failure is logged and the loop continues with nothing sent
Deliver(packet, src, t) ==
    Then(write_packet(Cursor(ZeroBuf, 0), packet), LAMBDA enc :
        IF ~IsOk(enc) THEN <<>>
        ELSE Then(get_range(enc, 0, enc.pos), LAMBDA data :
                 IF ~IsOk(data) THEN <<>>
                 ELSE IF t = "send_err" THEN <<>>
                 ELSE <<[dst |-> src, data |-> data.val]>>))

\* read_packet on a new buffer whose array holds the datagram d
Decode(d) ==
    Then(read_packet(Cursor(Pad(d), 0)), LAMBDA r : [err |-> r.err, val |-> r.val])

\* write_packet on a new buffer: buf[0..pos]
Encode(packet) ==
    Then(write_packet(Cursor(ZeroBuf, 0), packet), LAMBDA w : Bytes(w.buf, w.pos))

(***************************************************************************)
(* The server and its resolver at work                                     *)
(***************************************************************************)

MaxDatagrams == 2

MaxQueries == 3

MaxDepth == 2

Clients == {"client"}

\* the 12 bytes of a header with the given id, response bit, result code
\* number and question and answer counts, recursion desired
HeaderBytes(id, response, rescode, questions, answers) ==
    <<id \div 256, id % 256, 1 + (128 * B2N(response)), rescode,
      0, questions, 0, answers, 0, 0, 0, 0>>

\* what clients ask: "w.x"; nothing
RequestPackets ==
    << Packet(4660, FALSE, "Success", <<Question(NameWX, "A")>>, <<>>, <<>>, <<>>),
       Packet(4660, FALSE, "Success", <<>>, <<>>, <<>>, <<>>) >>

\* what name servers reply: answers with a delegation and glue; NXDOMAIN with
\* a delegation and glue; a delegation with glue after an unrelated address; a
\* delegation without glue; nothing
ReplyPackets ==
    << Packet(QUERY_ID, TRUE, "Success", <<Question(NameWX, "A")>>,
              <<RecA(NameWX, <<10, 0, 0, 255>>)>>, <<RecNS(NameX, NameNX)>>,
              <<RecA(NameNX, <<10, 0, 0, 1>>)>>),
       Packet(QUERY_ID, TRUE, "NonexistantDomain", <<Question(NameWX, "A")>>,
              <<>>, <<RecNS(NameX, NameNX)>>, <<RecA(NameNX, <<10, 0, 0, 1>>)>>),
       Packet(QUERY_ID, TRUE, "Success", <<Question(NameWX, "A")>>,
              <<>>, <<RecNS(NameX, NameNX)>>,
              <<RecA(NameY, <<10, 0, 0, 9>>), RecA(NameNX, <<192, 168, 1, 1>>)>>),
       Packet(QUERY_ID, TRUE, "Success", <<Question(NameWX, "A")>>,
              <<>>, <<RecNS(NameX, NameNX)>>, <<>>),
       Packet(QUERY_ID, TRUE, "Success", <<Question(NameWX, "A")>>, <<>>, <<>>, <<>>) >>

Encoded(packets) == [k \in 1..Len(packets) |-> Encode(packets[k])]

\* the datagrams clients send: the requests, and a question whose first label
\* has 53 bytes; a question whose name is a pointer to offset 512; a header
\* with result code 7; a question whose name is a pointer to itself
RequestDatagrams ==
    Encoded(RequestPackets) \o
    << HeaderBytes(4660, FALSE, 0, 1, 0) \o <<LABEL_LIMIT + 1>> \o Rep(98, LABEL_LIMIT + 1)
           \o <<1, 120, 0>> \o <<0, 1, 0, 1>>,
       HeaderBytes(4660, FALSE, 0, 1, 0) \o <<194, 0>>,
       HeaderBytes(4660, FALSE, 7, 0, 0),
       HeaderBytes(4660, FALSE, 0, 1, 0) \o <<192, 12>> >>

\* the datagrams name servers send: the replies, and an answer of a type the
\* code does not know; a record whose name is a pointer to offset 512
ReplyDatagrams ==
    Encoded(ReplyPackets) \o
    << HeaderBytes(QUERY_ID, TRUE, 0, 0, 1) \o <<1, 119, 1, 120, 0>> \o <<0, 16, 0, 1>>
           \o <<0, 0, 0, 60>> \o <<0, 3, 1, 2, 3>>,
       HeaderBytes(QUERY_ID, TRUE, 0, 0, 1) \o <<194, 0>> >>

Decoded(datagrams) == [k \in 1..Len(datagrams) |-> Decode(datagrams[k])]

RequestDecoded == Decoded(RequestDatagrams)

ReplyDecoded == Decoded(ReplyDatagrams)

\* what a step met
Met(kind, src, decoded, packet, t) ==
    [kind |-> kind, src |-> src, read |-> decoded, packet |-> packet, transport |-> t,
     depth |-> Len(stack), sent0 |-> Len(wire), req |-> request,
     queries0 |-> IF stack = <<>> THEN 0 ELSE Top(stack).queries,
     outer |-> IF Len(stack) < 2 THEN Nothing ELSE Top(Pop(stack)),
     qname |-> IF stack = <<>> THEN <<>> ELSE Top(stack).qname,
     qtype |-> IF stack = <<>> THEN Nothing ELSE Top(stack).qtype,
     fault |-> "none", returns |-> <<>>]

\* the process stops where it is: a panic, or a loop that never ends
Stop(where, e) ==
    /\ pc' = where
    /\ ev' = e
    /\ outbox' = <<>>
    /\ UNCHANGED <<request, stack, wire>>

\* the resolver moved; once recursive_lookup has returned, serve responds
Apply(m, req, t, e) ==
    /\ pc' = m.pc
    /\ stack' = m.stack
    /\ wire' = m.wire
    /\ request' = IF m.pc = "recv" THEN Nothing ELSE req
    /\ outbox' = IF m.pc = "recv"
                 THEN Deliver(Response(req.packet, Ok(m.result)), req.src, t)
                 ELSE <<>>
    /\ ev' = [e EXCEPT !.fault = m.fault, !.returns = m.returns]

ServerInit == NameInit

\* serve: recv_from returns a datagram; the request is decoded and, with a
\* question, resolution starts and runs up to the first reply awaited
Recv ==
    /\ pc = "recv"
    /\ served < MaxDatagrams
    /\ served' = served + 1
    /\ UNCHANGED codecVars
    /\ \E r \in { RequestDecoded[k] : k \in 1..Len(RequestDatagrams) },
          src \in Clients, t \in Transport :
          IF r.err = "diverge"
          THEN Stop("hung", Met("datagram", src, "diverge", Nothing, t))
          ELSE IF r.err = "panic"
          THEN Stop("crashed", Met("datagram", src, "panic", Nothing, t))
          ELSE IF r.err # "none"
          THEN Stop("recv", Met("datagram", src, r.err, Nothing, t))
          ELSE IF r.val.questions = <<>>
          THEN Stop("recv", Met("datagram", src, "none", r.val, t))
          ELSE Apply(Send(<<Frame(r.val.questions[1].name, r.val.questions[1].qtype)>>,
                          <<>>, t, <<>>),
                     [src |-> src, packet |-> r.val], t,
                     Met("datagram", src, "none", r.val, t))

\* serve: recv_from returns an error; the loop continues
RecvError ==
    /\ pc = "recv"
    /\ ev' = Met("recv_error", "", "none", Nothing, "ok")
    /\ UNCHANGED <<pc, request, stack, wire, outbox, served>>
    /\ UNCHANGED codecVars

\* lookup: recv_from returns a reply; it is decoded, recursive_lookup decides,
\* and the next query is sent or the result goes back to serve
Reply ==
    /\ pc = "await"
    /\ UNCHANGED <<served, codecVars>>
    /\ \E r \in { ReplyDecoded[k] : k \in 1..Len(ReplyDatagrams) }, t \in Transport :
          IF r.err = "diverge"
          THEN Stop("hung", Met("reply", request.src, "diverge", Nothing, t))
          ELSE IF r.err # "none"
          THEN Stop("crashed", [Met("reply", request.src, r.err, Nothing, t)
                                   EXCEPT !.fault = "decode"])
          ELSE \E m \in Decide(stack, r.val, wire, t) :
                  /\ Len(m.wire) <= MaxQueries
                  /\ Len(m.stack) <= MaxDepth
                  /\ Apply(m, request, t, Met("reply", request.src, "none", r.val, t))

\* lookup: recv_from returns an error, unwrapped
ReplyError ==
    /\ pc = "await"
    /\ Stop("crashed", [Met("reply_error", request.src, "none", Nothing, "ok")
                           EXCEPT !.fault = "recv"])
    /\ UNCHANGED <<served, codecVars>>

Next == Recv \/ RecvError \/ Reply \/ ReplyError

Spec == ServerInit /\ [][Next]_vars

(***************************************************************************)
(* Properties of the resolver and the server                               *)
(***************************************************************************)

\* the result code number and the transaction id in the bytes of a datagram
RcodeOf(data) == data[4] % 16

IdOf(data) == (data[1] * 256) + data[2]

\* the last step was a reply that decoded
GotReply == ev.kind = "reply" /\ ev.read = "none"

\* the invocation that received the last reply returned it, and sent no query
\* after it
ReturnedTheReply ==
    /\ ev.returns # <<>>
    /\ ev.returns[1].depth = ev.depth
    /\ ev.returns[1].result = ev.packet
    /\ \A k \in (ev.sent0 + 1)..Len(wire) : wire[k].depth < ev.depth

\* C3: when a reply has a non-empty answer section and result code Success,
\* the invocation of recursive_lookup that received it returns exactly that
\* reply and sends no further query; when it is the reply to the first query
\* of the request, that query, to the root server, is the only one sent.
C3_TerminalSuccess ==
    (GotReply /\ ev.packet.answers # <<>> /\ ev.packet.header.rescode = "Success") =>
        /\ ReturnedTheReply
        /\ (ev.depth = 1 /\ ev.sent0 = 1) =>
              /\ Len(wire) = 1
              /\ wire[1].dst = <<198, 41, 0, 4>>
              /\ wire[1].port = 53
              /\ pc = "recv"

C3_Witness ==
    /\ GotReply
    /\ ev.packet.answers # <<>>
    /\ ev.packet.header.rescode = "Success"
    /\ ev.packet.authorities # <<>>
    /\ ev.packet.resources # <<>>
    /\ ev.depth = 1
    /\ ev.sent0 = 1
    /\ ev.returns[1].result = ev.packet
    /\ Len(wire) = 1

\* C4: when a reply has result code NXDOMAIN, the invocation of
\* recursive_lookup that received it returns that reply at once: it sends no
\* query to another name server and starts no nested resolution, also when the
\* reply carries NS records and glue addresses.
C4_TerminalNegative ==
    (GotReply /\ ev.packet.header.rescode = "NonexistantDomain") => ReturnedTheReply

C4_Witness ==
    /\ GotReply
    /\ ev.packet.header.rescode = "NonexistantDomain"
    /\ \E k \in 1..Len(ev.packet.authorities) : ev.packet.authorities[k].kind = "NS"
    /\ \E k \in 1..Len(ev.packet.resources) : ev.packet.resources[k].kind = "A"
    /\ ev.returns[1].result = ev.packet
    /\ Len(wire) = ev.sent0

\* the addresses of the additional section's A records owned by the target
\* of an authority-section NS record for a suffix of qname
GlueAddrs(p, qname) ==
    { p.resources[j].addr : j \in
        { i \in 1..Len(p.resources) :
            /\ p.resources[i].kind = "A"
            /\ \E n \in 1..Len(p.authorities) :
                  /\ p.authorities[n].kind = "NS"
                  /\ EndsWith(qname, p.authorities[n].domain)
                  /\ p.authorities[n].host = p.resources[i].domain } }

Delegated ==
    /\ GotReply
    /\ ~(ev.packet.answers # <<>> /\ ev.packet.header.rescode = "Success")
    /\ ev.packet.header.rescode # "NonexistantDomain"
    /\ GlueAddrs(ev.packet, ev.qname) # {}

\* C5: when a reply is not terminal and its additional section holds an A
\* record owned by the target of an authority NS record for a suffix of the
\* queried name, the next query of the loop goes to that record's address,
\* port 53, for the same name and type (the transport letting it be sent).
C5_DelegationWalk ==
    (Delegated /\ ev.transport = "ok") =>
        /\ pc = "await"
        /\ Len(stack) = ev.depth
        /\ Len(wire) = ev.sent0 + 1
        /\ wire[Len(wire)].dst \in GlueAddrs(ev.packet, ev.qname)
        /\ wire[Len(wire)].port = 53
        /\ wire[Len(wire)].depth = ev.depth
        /\ Decode(wire[Len(wire)].data).val.questions =
               <<[name |-> ev.qname, qtype |-> ev.qtype]>>

C5_Witness ==
    /\ Delegated
    /\ pc = "await"
    /\ Len(wire) = 2
    /\ wire[1].dst = <<198, 41, 0, 4>>
    /\ wire[2].dst = <<192, 168, 1, 1>>
    /\ wire[2].data = wire[1].data

\* C6: a datagram that does not decode leaves the server receiving, and no
\* response is sent for it.
C6_MalformedIgnored ==
    (ev.kind = "datagram" /\ ev.read # "none") => (pc = "recv" /\ outbox = <<>>)

\* C7: for a request that decodes with zero questions, one response goes to
\* the requester, with result code FormError and the request's id.
C7_ZeroQuestionFormError ==
    (ev.kind = "datagram" /\ ev.read = "none" /\ ev.packet.questions = <<>>) =>
        /\ Len(outbox) = 1
        /\ outbox[1].dst = ev.src
        /\ RcodeOf(outbox[1].data) = ResultCode_as_u8("FormError")
        /\ IdOf(outbox[1].data) = ev.packet.header.id

\* C8: when resolution fails (the query does not encode, the socket does not
\* bind, send or receive, or the reply does not decode), a response with
\* result code ServerFail goes to the requester and the server receives on.
C8_FailureAnswered ==
    (ev.kind \in {"datagram", "reply", "reply_error"} /\ ev.fault # "none") =>
        /\ pc = "recv"
        /\ Len(outbox) = 1
        /\ outbox[1].dst = ev.src
        /\ RcodeOf(outbox[1].data) = ResultCode_as_u8("ServerFail")

(***************************************************************************)
(* Records, headers and names read from bytes as they arrive               *)
(***************************************************************************)

RECURSIVE WireLabels(_)
\* labels on the wire: a length byte and the bytes of each
WireLabels(ls) ==
    IF ls = <<>> THEN <<>> ELSE <<Len(Head(ls))>> \o Head(ls) \o WireLabels(Tail(ls))

\* a name on the wire, uncompressed
WireName(name) == WireLabels(Split(name)) \o <<0>>

\* a resource record on the wire: owner, type, class IN, ttl, RDLENGTH, payload
WireRecord(name, qtype, ttl, data_len, payload) ==
    WireName(name) \o <<qtype \div 256, qtype % 256>> \o <<0, 1>>
        \o <<ttl[1] \div 256, ttl[1] % 256, ttl[2] \div 256, ttl[2] % 256>>
        \o <<data_len \div 256, data_len % 256>> \o payload

\* type codes: four the code has no variant for, and A, NS, CNAME, MX, AAAA
TypeChoices == {0, 16, 255, 65535, 1, 2, 5, 15, 28}

\* payloads: bytes, bytes that look like a pointer and an end of name, none
PayloadChoices == { <<1, 2, 3>>, <<192, 12, 0>>, <<>> }

DataLenChoices == {0, 3, 65535}

\* where the record starts: the start of the buffer, after a header, and so
\* that its RDLENGTH field ends at the last byte of the buffer
RecordStart(name) == {0, LEAD, MAX_BUFFER_SIZE - (Len(WireName(name)) + 10)}

\* a buffer that holds one record at an offset, the cursor at its start
LoadRecord ==
    \E qtype \in TypeChoices, payload \in PayloadChoices, data_len \in DataLenChoices,
       start \in RecordStart(NameWX) :
        /\ last.op = "none"
        /\ held.kind = "none"
        /\ buf' = Pad([k \in 1..start |-> 0]
                      \o WireRecord(NameWX, qtype, <<1, 300>>, data_len, payload))
        /\ pos' = start
        /\ last' = NoCall
        /\ ops' = 0
        /\ held' = [kind |-> "record", domain |-> NameWX, qtype |-> qtype,
                    ttl |-> <<1, 300>>, data_len |-> data_len, start |-> start,
                    data |-> start + Len(WireName(NameWX)) + 10]
        /\ UNCHANGED serverVars

DoReadRecord ==
    /\ ops < MaxOps
    /\ Called("read_record", <<>>, read_record(Here))
    /\ UNCHANGED held

\* a buffer of 512 bytes, zero but for the bytes put at the given offsets
Patch(base, at, bytes) ==
    [k \in 1..MAX_BUFFER_SIZE |->
        IF k > at /\ k <= at + Len(bytes) THEN bytes[k - at]
        ELSE IF k <= Len(base) THEN base[k] ELSE 0]

\* datagrams as they may arrive: headers with every result code number; a
\* question for "w.x"; names whose pointers form a cycle (to itself, to each
\* other, through a label); a question whose name points to offset 512; a
\* question followed by an answer whose name points to the last byte, where
\* a label of 5 bytes starts
BytesChoices ==
    { HeaderBytes(4660, TRUE, r, 0, 0) : r \in 0..15 }
    \cup { RequestDatagrams[1],
           HeaderBytes(4660, FALSE, 0, 1, 0) \o <<192, 12>>,
           HeaderBytes(4660, FALSE, 0, 1, 0) \o <<192, 14, 192, 12>>,
           HeaderBytes(4660, FALSE, 0, 1, 0) \o <<1, 119, 192, 12>>,
           HeaderBytes(4660, FALSE, 0, 1, 0) \o <<194, 0>>,
           Patch(HeaderBytes(4660, TRUE, 0, 1, 1) \o WireName(NameWX) \o <<0, 1, 0, 1>>
                     \o <<193, 255>>,
                 MAX_BUFFER_SIZE - 1, <<5>>) }

\* a buffer filled from a datagram, the cursor at its start or after the header
LoadBytes ==
    \E d \in BytesChoices, start \in {0, LEAD} :
        /\ last.op = "none"
        /\ held.kind = "none"
        /\ buf' = Pad(d)
        /\ pos' = start
        /\ last' = NoCall
        /\ ops' = 0
        /\ held' = [kind |-> "bytes", start |-> start]
        /\ UNCHANGED serverVars

DoReadHeader ==
    /\ ops < MaxOps
    /\ Called("read_header", <<>>, read_header(Here))
    /\ UNCHANGED held

\* the records written: two of unknown type, and one of each other kind
RecordChoices ==
    { RecUnknown(NameWX, 16, 3), RecUnknown(NameLong(RFC_LABEL_MAX + 1), 0, 0),
      RecA(NameWX, <<10, 0, 0, 255>>), RecNS(NameX, NameNX), RecMX(NameX, NameNX),
      RecCNAME(NameWX, NameNX), RecAAAA(NameNX) }

\* write_record into a new buffer or over the bytes of a datagram
DoWriteRecord ==
    /\ ops < MaxOps
    /\ held.kind \in {"none", "bytes"}
    /\ \E record \in RecordChoices :
          Called("write_record", <<record>>, write_record(Here, record))
    /\ UNCHANGED held

\* read_packet, called as the source calls it: from offset 0 of a buffer
\* that recv_from has just filled
DoReadDatagram ==
    /\ ops = 0
    /\ held.kind = "bytes"
    /\ held.start = 0
    /\ Called("read_packet", <<>>, read_packet(Here))
    /\ UNCHANGED held

WireInit == NameInit

WireNext ==
    \/ NewBuffer
    \/ LoadRecord
    \/ LoadBytes
    \/ DoReadRecord
    \/ DoReadHeader
    \/ DoReadQname
    \/ DoReadDatagram
    \/ DoWriteRecord
    \/ DoWritePacket

WireSpec == WireInit /\ [][WireNext]_vars

\* a record of a type the code has no variant for was loaded, its ten fixed
\* bytes within the buffer, and read_record was the first call on it
ReadUnknownRecord ==
    /\ held.kind = "record"
    /\ held.qtype \notin {1, 2, 5, 15, 28}
    /\ held.data <= MAX_BUFFER_SIZE
    /\ last.op = "read_record"
    /\ ops = 1

\* C11: read_record on a record whose type code is not 1, 2, 5, 15 or 28
\* returns an Unknown record with the type code, the declared RDLENGTH, the
\* owner name and the TTL of the record, and leaves the cursor RDLENGTH bytes
\* past the end of the RDLENGTH field, whatever the payload holds.
C11_UnknownRecordSkip ==
    ReadUnknownRecord =>
        /\ last.err = "none"
        /\ pos = held.data + held.data_len
        /\ last.val = [kind |-> "Unknown", domain |-> held.domain, qtype |-> held.qtype,
                       data_len |-> held.data_len, ttl |-> held.ttl]
        /\ last.kept

C11_Witness ==
    /\ ReadUnknownRecord
    /\ held.qtype = 16
    /\ held.data_len = 3
    /\ held.start = LEAD
    /\ buf[held.data] = 192
    /\ pos = held.data + 3
    /\ last.val.kind = "Unknown"

\* C12: read_header on a header whose RCODE field holds a number above 5
\* returns an error to its caller: it does not panic and does not return a
\* header with one of the six result codes.
C12_RcodeDecodeError ==
    (/\ last.op = "read_header"
     /\ ops = 1
     /\ last.pos0 + 12 <= MAX_BUFFER_SIZE
     /\ buf[last.pos0 + 3] % 16 > 5) =>
        last.err \in {"range", "label"}

\* the number of records of a section that write_record encodes
RECURSIVE Encodable(_)
Encodable(rs) ==
    IF rs = <<>> THEN 0
    ELSE (IF Head(rs).kind = "Unknown" THEN 0 ELSE 1) + Encodable(Tail(rs))

\* the 16-bit count field at offset k of the header in the buffer
CountField(k) == (buf[k] * 256) + buf[k + 1]

\* C13: after write_packet has encoded a message from offset 0, the four
\* count fields in the buffer are the numbers of questions and records
\* encoded in the four sections, whatever the header given held, also with
\* records of unknown type.
C13_CountAgreement ==
    (/\ held.kind = "packet"
     /\ last.op = "write_packet"
     /\ last.pos0 = 0
     /\ last.err = "none") =>
        /\ CountField(4) = Len(held.m.questions)
        /\ CountField(6) = Encodable(held.m.answers)
        /\ CountField(8) = Encodable(held.m.authorities)
        /\ CountField(10) = Encodable(held.m.resources)

\* C14: a read_packet that fails in a question or a record returns an error
\* value to its caller, and no packet.
C14_DecodeAbort ==
    (/\ last.op = "read_packet"
     /\ last.pos0 = 0
     /\ buf[3] % 16 <= 5
     /\ last.err \notin {"none", "diverge"}) =>
        last.err \in {"range", "label"}

\* the labels of the name have 1 to 63 bytes each
LabelsWithinLimit(qname) ==
    \A k \in 1..Len(Split(qname)) :
        Len(Split(qname)[k]) >= 1 /\ Len(Split(qname)[k]) <= RFC_LABEL_MAX

\* C16: write_qname returns the label-too-long error only for a name with a
\* label of more than 63 bytes; for a name whose labels have 1 to 63 bytes and
\* that fits in the rest of the buffer it succeeds, writes each label as a
\* length byte and its bytes, then one zero byte, and advances the cursor by
\* the length of the name plus 2.
C16_LabelLimitSuccess ==
    (last.op = "write_qname") =>
        /\ last.err = "label" => HasLongLabel(last.args[1])
        /\ (/\ LabelsWithinLimit(last.args[1])
            /\ last.pos0 + Len(last.args[1]) + 2 <= MAX_BUFFER_SIZE) =>
               /\ last.err = "none"
               /\ pos = last.pos0 + Len(last.args[1]) + 2
               /\ \A k \in 1..(Len(last.args[1]) + 2) :
                     buf[last.pos0 + k - 1] = WireName(last.args[1])[k]

\* recursive_lookup returned a result to serve in the last step, and the
\* transport let the response be sent
Resolved ==
    /\ ev.kind = "reply"
    /\ ev.returns # <<>>
    /\ ev.returns[Len(ev.returns)].depth = 1
    /\ ev.transport = "ok"

\* C15: when resolution succeeds for a request with a question, serve sends
\* exactly one response, to the requester, with the request's id, the
\* response and recursion-available flags set, the request's first question
\* as its only question, and the result code, the three record sections and
\* their three counts of the resolution result.
C15_ResponseShape ==
    Resolved =>
        /\ Len(outbox) = 1
        /\ outbox[1].dst = ev.req.src
        /\ Decode(outbox[1].data).err = "none"
        /\ Decode(outbox[1].data).val.header.id = ev.req.packet.header.id
        /\ Decode(outbox[1].data).val.header.response
        /\ Decode(outbox[1].data).val.header.recursion_available
        /\ Decode(outbox[1].data).val.questions = <<ev.req.packet.questions[1]>>
        /\ Decode(outbox[1].data).val.header.rescode =
               ev.returns[Len(ev.returns)].result.header.rescode
        /\ Decode(outbox[1].data).val.answers = ev.returns[Len(ev.returns)].result.answers
        /\ Decode(outbox[1].data).val.authorities =
               ev.returns[Len(ev.returns)].result.authorities
        /\ Decode(outbox[1].data).val.resources =
               ev.returns[Len(ev.returns)].result.resources
        /\ Decode(outbox[1].data).val.header.answers =
               ev.returns[Len(ev.returns)].result.header.answers
        /\ Decode(outbox[1].data).val.header.authoritative_entries =
               ev.returns[Len(ev.returns)].result.header.authoritative_entries
        /\ Decode(outbox[1].data).val.header.resource_entries =
               ev.returns[Len(ev.returns)].result.header.resource_entries

\* the last reply decoded and is neither answers with Success nor NXDOMAIN
NonTerminal ==
    /\ GotReply
    /\ ~(ev.packet.answers # <<>> /\ ev.packet.header.rescode = "Success")
    /\ ev.packet.header.rescode # "NonexistantDomain"

\* the targets of the authority section's NS records for a suffix of qname
NsTargets(p, qname) ==
    { p.authorities[n].host : n \in
        { i \in 1..Len(p.authorities) :
            /\ p.authorities[i].kind = "NS"
            /\ EndsWith(qname, p.authorities[i].domain) } }

\* the addresses of the answer section's A records
AnswerAddrs(p) ==
    { p.answers[n].addr : n \in { i \in 1..Len(p.answers) : p.answers[i].kind = "A" } }

\* the question in the last query sent
LastAsked == Decode(wire[Len(wire)].data).val.questions

\* C17: for a non-terminal reply without usable glue, (a) with no NS record
\* for a suffix of the queried name the reply is returned and no query
\* follows; (b) otherwise a nested recursive_lookup for type A of an NS target
\* starts, at the root server, the outer invocation keeping the reply; when
\* the nested invocation returns a result with an A record the outer loop
\* asks that address next, and when it returns one without, the outer
\* invocation returns the reply it kept.
C17_DelegationFallback ==
    /\ (NonTerminal /\ GlueAddrs(ev.packet, ev.qname) = {}
            /\ NsTargets(ev.packet, ev.qname) = {}) =>
          ReturnedTheReply
    /\ (NonTerminal /\ GlueAddrs(ev.packet, ev.qname) = {}
            /\ NsTargets(ev.packet, ev.qname) # {} /\ ev.transport = "ok") =>
          /\ pc = "await"
          /\ ev.returns = <<>>
          /\ Len(stack) = ev.depth + 1
          /\ stack[ev.depth].response = ev.packet
          /\ Top(stack).qname \in NsTargets(ev.packet, ev.qname)
          /\ Len(wire) = ev.sent0 + 1
          /\ wire[Len(wire)].dst = <<198, 41, 0, 4>>
          /\ wire[Len(wire)].port = 53
          /\ wire[Len(wire)].depth = ev.depth + 1
          /\ LastAsked = <<[name |-> Top(stack).qname, qtype |-> QT("A")]>>
    /\ (GotReply /\ ev.returns # <<>> /\ ev.depth >= 2) =>
          IF AnswerAddrs(ev.returns[1].result) # {}
          THEN ev.transport = "ok" =>
                  /\ pc = "await"
                  /\ Len(ev.returns) = 1
                  /\ Len(stack) = ev.depth - 1
                  /\ Len(wire) = ev.sent0 + 1
                  /\ wire[Len(wire)].dst \in AnswerAddrs(ev.returns[1].result)
                  /\ wire[Len(wire)].port = 53
                  /\ wire[Len(wire)].depth = ev.depth - 1
                  /\ LastAsked = <<[name |-> ev.outer.qname, qtype |-> ev.outer.qtype]>>
          ELSE /\ Len(ev.returns) >= 2
               /\ ev.returns[2].depth = ev.depth - 1
               /\ ev.returns[2].result = ev.outer.response
               /\ \A k \in (ev.sent0 + 1)..Len(wire) : wire[k].depth < ev.depth - 1

\* C17 witness: after a delegation without glue the nested resolution, asked
\* at the root, returned an address and the outer loop asked it
C17_Witness ==
    /\ GotReply
    /\ ev.depth = 2
    /\ Len(ev.returns) = 1
    /\ pc = "await"
    /\ Len(wire) = 3
    /\ wire[2].dst = <<198, 41, 0, 4>>
    /\ wire[2].depth = 2
    /\ wire[3].dst = <<10, 0, 0, 255>>
    /\ wire[3].depth = 1
    /\ NsTargets(ev.outer.response, ev.outer.qname) = {ev.qname}

\* the server just asked answered with a delegation whose glue is its own
\* address
LoopingReply ==
    /\ Delegated
    /\ ev.transport = "ok"
    /\ ev.sent0 >= 1
    /\ GlueAddrs(ev.packet, ev.qname) = {wire[ev.sent0].dst}

\* C18: recursive_lookup has no cap on its iterations: a non-terminal reply
\* with an NS record and its glue never makes it return, whatever the number
\* of queries it has sent, and always makes it send one more; when the glue
\* leads back to the server that gave the reply, the invocation is where it
\* was before the reply, with the same query sent to the same server.
C18_UnboundedDelegationLoop ==
    /\ (Delegated /\ ev.transport = "ok") =>
          /\ ev.returns = <<>>
          /\ pc = "await"
          /\ outbox = <<>>
          /\ Len(stack) = ev.depth
          /\ Top(stack).queries = ev.queries0 + 1
          /\ Len(wire) = ev.sent0 + 1
    /\ LoopingReply =>
          /\ wire[Len(wire)] = wire[ev.sent0]
          /\ Top(stack).qname = ev.qname
          /\ Top(stack).qtype = ev.qtype
          /\ ToSocketAddr(Top(stack).ns).ip = wire[ev.sent0].dst

\* C18 witness: the loop went round as often as the model lets it, every
\* query after the first to the server that delegates to itself
C18_Witness ==
    /\ LoopingReply
    /\ pc = "await"
    /\ Len(wire) = MaxQueries
    /\ Top(stack).queries = MaxQueries
    /\ \A k \in 2..Len(wire) : wire[k].dst = <<192, 168, 1, 1>>

\* the offset the scan of a name looks at after offset p of b, or -1 when the
\* scan ends at p, with the name or with an error
Hop(b, p) ==
    IF p >= MAX_BUFFER_SIZE THEN -1
    ELSE IF b[p] >= 192
    THEN IF p + 1 >= MAX_BUFFER_SIZE THEN -1 ELSE ((b[p] - 192) * 256) + b[p + 1]
    ELSE IF b[p] = 0 THEN -1
    ELSE IF p + 1 + b[p] >= MAX_BUFFER_SIZE THEN -1
    ELSE p + 1 + b[p]

RECURSIVE Stops(_, _, _)
\* the scan from p ends within n hops
Stops(b, p, n) ==
    IF p = -1 THEN TRUE
    ELSE IF n = 0 THEN FALSE
    ELSE Stops(b, Hop(b, p), n - 1)

\* more hops than any name of the buffers under test has labels and pointers
MaxHops == 16

\* the scan from p does not end: it comes back to an offset it has looked at
Cyclic(b, p) == ~Stops(b, p, MaxHops)

\* a pointer at p whose target is p
SelfPointer(b, p) == p < MAX_BUFFER_SIZE - 1 /\ b[p] >= 192 /\ Hop(b, p) = p

\* a pointer at p and a pointer at its target, each the target of the other
PointerPair(b, p) ==
    /\ p < MAX_BUFFER_SIZE - 1
    /\ b[p] >= 192
    /\ Hop(b, p) # p
    /\ Hop(b, p) < MAX_BUFFER_SIZE - 1
    /\ b[Hop(b, p)] >= 192
    /\ Hop(b, Hop(b, p)) = p

\* C19: read_qname has no guard against pointer cycles: started where the
\* pointers of the buffer form a cycle (a pointer to itself, two pointers to
\* each other, any chain that comes back) it never ends, returning neither a
\* name nor an error; it ends wherever they form none.
C19_UnboundedPointerChase ==
    last.op = "read_qname" =>
        /\ (SelfPointer(buf, last.pos0) \/ PointerPair(buf, last.pos0)) =>
              Cyclic(buf, last.pos0)
        /\ Cyclic(buf, last.pos0) <=> last.err = "diverge"

\* C19 witness: read_qname was started at the first of two pointers that
\* target each other
C19_Witness ==
    /\ last.op = "read_qname"
    /\ last.pos0 = LEAD
    /\ PointerPair(buf, LEAD)
    /\ Hop(buf, LEAD) = LEAD + 2
    /\ last.err = "diverge"

RECURSIVE Known(_)
\* the records of a section that are not of the Unknown variant, in order
Known(rs) ==
    IF rs = <<>> THEN <<>>
    ELSE (IF Head(rs).kind = "Unknown" THEN <<>> ELSE <<Head(rs)>>) \o Known(Tail(rs))

\* a record of the Unknown variant with a record after it
UnknownThenMore(rs) ==
    \E i \in 1..Len(rs) : rs[i].kind = "Unknown" /\ i < Len(rs)

\* C20: write_record of a record of the Unknown variant returns Ok(0) and
\* leaves the buffer and the cursor as they were, wherever the cursor is and
\* whatever the record's name; write_packet goes on with the records after
\* it, its buffer and cursor those of the same packet without the Unknown
\* records.
C20_UnknownWriteNoOp ==
    /\ (last.op = "write_record" /\ last.args[1].kind = "Unknown") =>
          /\ last.err = "none"
          /\ last.val = 0
          /\ last.kept
          /\ pos = last.pos0
    /\ (last.op = "write_packet" /\ last.pos0 = 0 /\ held.kind = "packet") =>
          \E w \in { write_packet(Cursor(ZeroBuf, 0),
                                  [held.m EXCEPT !.answers = Known(@),
                                                 !.authorities = Known(@),
                                                 !.resources = Known(@)]) } :
              /\ last.err = w.err
              /\ last.err = "none" => (buf = w.buf /\ pos = w.pos)

\* C20 witness: an Unknown record with a name no encoder accepts was written
\* after other writes had moved the cursor
C20_Witness ==
    /\ last.op = "write_record"
    /\ last.args[1].kind = "Unknown"
    /\ last.args[1].domain = NameLong(RFC_LABEL_MAX + 1)
    /\ last.pos0 > 0
    /\ last.err = "none"

\* the number of bytes a name takes on the wire: a length byte for each
\* label, the bytes of the labels, the zero byte
WireLen(name) == Len(name) + 2

\* the number of payload bytes of a record on the wire
PayloadLen(record) ==
    CASE record.kind = "A" -> 4
      [] record.kind = "AAAA" -> 16
      [] record.kind = "MX" -> 2 + WireLen(record.host)
      [] OTHER -> WireLen(record.host)

\* a step is a write_record that succeeded for a record of a known variant
WroteRecord ==
    /\ ops' = ops + 1
    /\ last'.op = "write_record"
    /\ last'.err = "none"
    /\ last'.args[1].kind # "Unknown"

\* C21: after a write_record that succeeds, the RDLENGTH field of the record
\* written is the number of payload bytes after it (the bytes of the encoded
\* host for NS and CNAME, 2 more for MX, 4 for A, 16 for AAAA), the record
\* ends where the payload ends, the value returned is the advance of the
\* cursor, and no byte outside the record's span has changed.
C21_RdLengthOnEncode ==
    [][WroteRecord =>
          /\ last'.val = pos' - pos
          /\ pos' = pos + WireLen(last'.args[1].domain) + 10 + PayloadLen(last'.args[1])
          /\ (buf'[pos' - PayloadLen(last'.args[1]) - 2] * 256)
                 + buf'[pos' - PayloadLen(last'.args[1]) - 1] = PayloadLen(last'.args[1])
          /\ \A i \in 0..(MAX_BUFFER_SIZE - 1) :
                (i < pos \/ i >= pos') => buf'[i] = buf[i]]_vars

\* C21 witness: an MX record was written after bytes that are not zero, its
\* RDLENGTH field holding 2 and the length of the encoded host
C21_Witness ==
    /\ last.op = "write_record"
    /\ last.err = "none"
    /\ last.args[1].kind = "MX"
    /\ last.pos0 > 0
    /\ \E i \in 0..(last.pos0 - 1) : buf[i] # 0
    /\ CountField(pos - PayloadLen(last.args[1]) - 2) = 2 + WireLen(last.args[1].host)

\* the message in the k-th query sent
Sent(k) == Decode(wire[k].data)

\* the k-th query sent has the recursion-desired flag set and exactly one
\* question, counted as one
OneQuestionQuery(k) ==
    /\ Sent(k).err = "none"
    /\ Sent(k).val.header.recursion_desired
    /\ ~Sent(k).val.header.response
    /\ Sent(k).val.header.questions = 1
    /\ Len(Sent(k).val.questions) = 1
    /\ Sent(k).val.answers = <<>>
    /\ Sent(k).val.authorities = <<>>
    /\ Sent(k).val.resources = <<>>

\* C22: every message lookup sends has the recursion-desired flag set and
\* exactly one question, the name and type asked for, counted as one, and a
\* transaction id of its own: two successive lookups do not send the same id.
C22_QueryConstruction ==
    /\ \A k \in 1..Len(wire) : OneQuestionQuery(k)
    /\ (pc = "await" /\ stack # <<>>) =>
          Sent(Len(wire)).val.questions =
              <<[name |-> Top(stack).qname, qtype |-> Top(stack).qtype]>>
    /\ \A k \in 2..Len(wire) :
          Sent(k).val.header.id # Sent(k - 1).val.header.id

\* read_record has read the record the buffer was loaded with
ReadLoadedRecord ==
    /\ held.kind = "record"
    /\ last.op = "read_record"
    /\ ops = 1
    /\ last.err = "none"

\* C23: a read_record that succeeds leaves the cursor RDLENGTH bytes past
\* the end of the RDLENGTH field, for a record of any type, also when the
\* RDLENGTH declared is not the number of bytes the type's parser reads.
C23_RecordFraming ==
    ReadLoadedRecord => pos = held.data + held.data_len

====
